---------------------------- MODULE Spec2Model ----------------------------
(***************************************************************************)
(* Failure ledger and retry reconciliation of asmr-downloader              *)
(* (package utils: NewFileDownloader, NewFixFileDownloader,                *)
(* FixBrokenDownloadFile, DownloadFile, CopyFile).                         *)
(*                                                                         *)
(* A ledger line is a sequence of tokens; the token "|" is the field       *)
(* separator.  A file is a sequence of lines (each written with its line   *)
(* terminator).  The content of a destination file is a string.            *)
(***************************************************************************)
EXTENDS Integers, Sequences, FiniteSets, TLC

\* ------------------------------------------------------------------ bounds
\* Largest number of lines the ledger file holds before a pass starts.
MaxLedger == 2
\* Largest retry budget handed to FixBrokenDownloadFile (maxRetry in 1..MaxRetry).
MaxRetry == 3
\* Largest number of reconciliation passes run one after the other.
MaxPasses == 2

\* ------------------------------------------------------------ vocabulary
Sep == "|"
\* Timestamp of the lines already in the ledger when the run starts.
OldTime == "t0"
\* The files of the run: name -> destination path and source URL.
Files == {"a", "b"}
PathOf(f) == <<"/out/", f>>
UrlOf(f) == <<"http://x/", f>>
Paths == {PathOf(f) : f \in Files}

\* Destination file contents.
NoFile == "<absent>"
Data == "data"
Partial == ""
Marker == "error code: 1015"
\* A body that contains the marker text and more.
MarkerInside == "<html>error code: 1015</html>"

\* A content check that accepts any content containing the marker text.
IsMarkerLoose(content) == content \in {Marker, MarkerInside}

\* string(content) == "error code: 1015".
IsMarker(content) == content = Marker
\* No snapshot file on disk.
NoTmp == <<"<no file>">>

\* GetCurrentDateTime(): the formatted wall-clock time of the run.
GetCurrentDateTime == "t1"

\* logStr of NewFileDownloader / NewFixFileDownloader, without the terminator:
\* timestamp + "|" + storePath + "|" + url.
LogStr(ts, storePath, url) == <<ts, Sep>> \o storePath \o <<Sep>> \o url

\* strings.Split(s, "|"): the fields between the separators (one field when
\* there is no separator).
RECURSIVE Split(_)
Split(s) ==
    IF \A k \in 1..Len(s) : s[k] # Sep
    THEN <<s>>
    ELSE LET k == CHOOSE j \in 1..Len(s) :
                     s[j] = Sep /\ \A h \in 1..(j - 1) : s[h] # Sep
         IN <<SubSeq(s, 1, k - 1)>> \o Split(SubSeq(s, k + 1, Len(s)))

\* Lines a ledger may hold when the run starts: well-formed entries left by an
\* earlier run, a line cut short before its second separator, a blank line.
BadLine == <<OldTime, Sep, "/out/", "a">>
InitLines == {LogStr(OldTime, PathOf(f), UrlOf(f)) : f \in Files} \cup {BadLine, <<>>}

RECURSIVE SeqsUpTo(_, _)
SeqsUpTo(S, n) ==
    IF n = 0 THEN {<<>>}
    ELSE LET shorter == SeqsUpTo(S, n - 1)
         IN shorter \cup {Append(q, x) : q \in {r \in shorter : Len(r) = n - 1}, x \in S}

VARIABLES
    ledger,           \* failed-download.txt: the lines of the live ledger
    tmp,              \* failed-download.txt.tmp: the snapshot, or NoTmp
    fs,               \* destination path -> content, or NoFile
    maxRetry,         \* argument of FixBrokenDownloadFile
    pc,               \* position of FixBrokenDownloadFile
    resultLine,       \* parsed snapshot lines
    resultContainer,  \* failure accumulator of the pass
    lastSuccessIndex, \* 0-based, -1 at start
    index,            \* outer loop variable (0-based)
    i,                \* inner loop variable
    sent,             \* messages the last step handed to DiscordWebhook.Send
    tasks,            \* per download task: what it did ("new" before it ran)
    hist,             \* per parsed entry: its NewFixFileDownloader calls so far
    lastCall,         \* the last download call: destination and whether it failed
    startLedger,      \* ledger content when the pass started
    fault,            \* the disk error that hit the pass, "none" without one
    runs              \* what each completed earlier pass of the run did

vars == <<ledger, tmp, fs, maxRetry, pc, resultLine, resultContainer,
          lastSuccessIndex, index, i, sent, tasks, hist, lastCall, startLedger, fault, runs>>

MsgKinds == {"taskfail", "fixfail", "blocked", "retry"}
\* Per entry: calls made, calls that recorded a failure, calls that downloaded
\* the file, the path the last call took, and whether every call so far found
\* the marker in the downloaded file.
NoHist == [calls |-> 0, fails |-> 0, oks |-> 0, last |-> "none", marked |-> TRUE]
Count(msgs, kind) == Len(SelectSeq(msgs, LAMBDA m : m = kind))
NoCall == [path |-> <<>>, failed |-> FALSE]
NewTask == [st |-> "new", appended |-> 0, notified |-> 0, ret |-> "none"]

\* init() opens the ledger (O_APPEND); the process has not downloaded anything.
Init ==
    /\ ledger \in SeqsUpTo(InitLines, MaxLedger)
    /\ tmp = NoTmp
    /\ fs = [p \in Paths |-> NoFile]
    /\ maxRetry \in 1..MaxRetry
    /\ pc = "idle"
    /\ resultLine = <<>>
    /\ resultContainer = <<>>
    /\ lastSuccessIndex = -1
    /\ index = 0
    /\ i = 0
    /\ sent = <<>>
    /\ tasks = [f \in Files |-> NewTask]
    /\ hist = <<>>
    /\ lastCall = NoCall
    /\ startLedger = <<>>
    /\ fault = "none"
    /\ runs = <<>>

\* DiscordWebhook.Send(message): the message is handed over (a send error is
\* logged and changes nothing else).
Send(s, kind) == Append(s, kind)

\* ------------------------------------------------------- Download Executor
\* What the network and the disk do to one DownloadFile call.
DownloadEnv == {"reqerr", "createerr", "copyerr", "body_data", "body_marker",
                "body_marker_inside"}

\* DownloadFile(storePath, fileUrl): [err, fs].
DownloadFile(files, storePath, env) ==
    CASE env = "reqerr" -> [err |-> TRUE, fs |-> files]
      [] env = "createerr" -> [err |-> TRUE, fs |-> files]
      [] env = "copyerr" -> [err |-> TRUE, fs |-> [files EXCEPT ![storePath] = Partial]]
      [] env = "body_data" -> [err |-> FALSE, fs |-> [files EXCEPT ![storePath] = Data]]
      [] env = "body_marker" -> [err |-> FALSE, fs |-> [files EXCEPT ![storePath] = Marker]]
      [] env = "body_marker_inside" ->
            [err |-> FALSE, fs |-> [files EXCEPT ![storePath] = MarkerInside]]

\* os.Remove(storePath) of a destination file.
RemoveFile(files, storePath) == [files EXCEPT ![storePath] = NoFile]

\* ---------------------------------------------------- initial download task
\* What got.Download does: the body it stored, or the kind of its error and
\* what it left at the destination.
GotEnv == {"body_data", "body_marker", "content_length_err", "other_err"}
GotLeft == {NoFile, Partial}

\* A task that records and reports the primary fetch's error before it tries
\* the fallback GET.
NewFileDownloaderEager(url, storePath, L, files, s, g, left, env) ==
    IF g = "body_data" \/ g = "body_marker"
    THEN [ledger |-> L,
          fs |-> [files EXCEPT ![storePath] = IF g = "body_data" THEN Data ELSE Marker],
          sent |-> s, failed |-> FALSE, ret |-> "nil"]
    ELSE LET files1 == [files EXCEPT ![storePath] = left]
             r == IF g = "content_length_err"
                  THEN DownloadFile(files1, storePath, env)
                  ELSE [err |-> TRUE, fs |-> files1]
         IN [ledger |-> Append(L, LogStr(GetCurrentDateTime, storePath, url)),
             fs |-> IF r.err THEN RemoveFile(r.fs, storePath) ELSE r.fs,
             sent |-> Send(s, "taskfail"),
             failed |-> r.err, ret |-> "nil"]

\* The closure returned by NewFileDownloader(url, path, filename), run once:
\* [ledger, fs, sent, failed, ret].
NewFileDownloader(url, storePath, L, files, s, g, left, env) ==
    IF g = "body_data" \/ g = "body_marker"
    THEN [ledger |-> L,
          fs |-> [files EXCEPT ![storePath] = IF g = "body_data" THEN Data ELSE Marker],
          sent |-> s, failed |-> FALSE, ret |-> "nil"]
    ELSE LET files1 == [files EXCEPT ![storePath] = left]
             r == IF g = "content_length_err"
                  THEN DownloadFile(files1, storePath, env)
                  ELSE [err |-> TRUE, fs |-> files1]
         IN IF ~r.err
            THEN [ledger |-> L, fs |-> r.fs, sent |-> s, failed |-> FALSE, ret |-> "nil"]
            ELSE [ledger |-> Append(L, LogStr(GetCurrentDateTime, storePath, url)),
                  fs |-> RemoveFile(r.fs, storePath),
                  sent |-> Send(s, "taskfail"),
                  failed |-> TRUE, ret |-> "nil"]

\* What the environment decided for a task: the primary fetch worked, the
\* fallback GET worked after a Content-Length error, or the download failed.
TaskFate(g, env) ==
    IF g \in {"body_data", "body_marker"} THEN "ok"
    ELSE IF g = "content_length_err"
            /\ env \in {"body_data", "body_marker", "body_marker_inside"} THEN "fallback_ok"
    ELSE "failed"

\* The task consults `left` only after a failed primary fetch and `env` only
\* for the fallback GET; an input it does not consult is held at one value.
TaskEnvUsed(g, left, env) ==
    /\ g \in {"body_data", "body_marker"} => left = NoFile
    /\ g # "content_length_err" => env = "reqerr"

\* One task of the worker pool runs its closure.
DownloadTask(f) ==
    /\ pc = "idle"
    /\ tasks[f].st = "new"
    /\ Len(ledger) < MaxLedger
    /\ \E g \in GotEnv, left \in GotLeft, env \in DownloadEnv :
         LET r == NewFileDownloader(UrlOf(f), PathOf(f), ledger, fs, <<>>, g, left, env)
         IN /\ TaskEnvUsed(g, left, env)
            /\ ledger' = r.ledger
            /\ fs' = r.fs
            /\ sent' = r.sent
            /\ tasks' = [tasks EXCEPT ![f] =
                            [st |-> TaskFate(g, env),
                             appended |-> Len(r.ledger) - Len(ledger),
                             notified |-> Count(r.sent, "taskfail"),
                             ret |-> r.ret]]
            /\ lastCall' = [path |-> PathOf(f), failed |-> TaskFate(g, env) = "failed"]
    /\ UNCHANGED <<tmp, maxRetry, pc, resultLine, resultContainer, lastSuccessIndex,
                   index, i, hist, startLedger, fault, runs>>

\* --------------------------------------------------------------- reconciler
\* Whether os.MkdirAll of the destination's directory works.
MkdirEnv == {"ok", "err"}

\* NewFixFileDownloader(url, storePath, resultLines):
\* [lines, fs, sent, kind], kind naming the path taken through the function.
NewFixFileDownloader(url, storePath, resultLines, files, s, mk, env) ==
    LET exists == files[storePath] # NoFile      \* FileOrDirExists, os.ReadFile
    IN IF ~exists /\ mk = "err"
       THEN [lines |-> <<>>, fs |-> files, sent |-> s, kind |-> "mkdirfail"]
       ELSE IF exists /\ ~IsMarker(files[storePath])
       THEN [lines |-> resultLines, fs |-> files, sent |-> s, kind |-> "exists"]
       ELSE LET files1 == IF exists THEN RemoveFile(files, storePath) ELSE files
                r == DownloadFile(files1, storePath, env)
                logStr == LogStr(GetCurrentDateTime, storePath, url)
            IN IF r.err
               THEN [lines |-> Append(resultLines, logStr), fs |-> r.fs,
                     sent |-> Send(s, "fixfail"), kind |-> "fail"]
               ELSE IF IsMarker(r.fs[storePath])
               THEN [lines |-> Append(resultLines, logStr), fs |-> r.fs,
                     sent |-> Send(s, "blocked"), kind |-> "blocked"]
               ELSE [lines |-> resultLines, fs |-> r.fs, sent |-> s, kind |-> "ok"]

\* The call consults `mk` only when nothing exists at the destination and
\* `env` only when it downloads; an input it does not consult is held at one
\* value.
FixEnvUsed(files, storePath, mk, env) ==
    /\ files[storePath] # NoFile => mk = "ok"
    /\ (mk = "err" \/ (files[storePath] # NoFile /\ ~IsMarker(files[storePath])))
          => env = "reqerr"

\* CopyFile(src, dst) followed by os.Open(dst): what the disk does.
SnapshotEnv == {"ok", "open_src_err", "create_err", "copy_err", "late_err", "open_tmp_err"}

\* CopyFile that reports no error once the copy loop has started.
CopyFileSwallows(src, dst, env, cut) ==
    CASE env = "open_src_err" -> [err |-> TRUE, dst |-> dst]
      [] env = "create_err" -> [err |-> TRUE, dst |-> dst]
      [] env = "copy_err" -> [err |-> FALSE, dst |-> SubSeq(src, 1, cut)]
      [] env = "late_err" -> [err |-> FALSE, dst |-> src]
      [] OTHER -> [err |-> FALSE, dst |-> src]

\* CopyFile(src, dst): [err, dst], dst the destination file afterwards.
CopyFile(src, dst, env, cut) ==
    CASE env = "open_src_err" -> [err |-> TRUE, dst |-> dst]
      [] env = "create_err" -> [err |-> TRUE, dst |-> dst]
      [] env = "copy_err" -> [err |-> TRUE, dst |-> SubSeq(src, 1, cut)]
      [] env = "late_err" -> [err |-> TRUE, dst |-> src]
      [] OTHER -> [err |-> FALSE, dst |-> src]

\* What a completed pass did: nothing to replay, every call a download, or else.
PassSummary ==
    IF Len(resultLine) = 0 THEN "empty"
    ELSE IF \A k \in 1..Len(resultLine) : hist[k].calls >= 1 /\ hist[k].oks = hist[k].calls
    THEN "all_ok"
    ELSE "other"

\* FixBrokenDownloadFile, lines 289-301: take the snapshot and open it.  A call
\* after a completed pass starts with fresh locals.
Snapshot ==
    /\ \/ pc = "idle" /\ runs' = runs
       \/ pc = "done" /\ Len(runs) + 1 < MaxPasses /\ runs' = Append(runs, PassSummary)
    /\ \E env \in SnapshotEnv, cut \in 0..Len(ledger) :
         LET r == CopyFile(ledger, tmp, env, cut)
         IN /\ tmp' = r.dst
            /\ pc' = IF r.err \/ env = "open_tmp_err" THEN "aborted_snapshot" ELSE "parse"
            /\ fault' = IF env = "ok" THEN "none" ELSE env
    /\ startLedger' = ledger
    /\ resultLine' = <<>>
    /\ resultContainer' = <<>>
    /\ lastSuccessIndex' = -1
    /\ index' = 0
    /\ i' = 0
    /\ hist' = <<>>
    /\ sent' = <<>>
    /\ UNCHANGED <<ledger, fs, maxRetry, tasks, lastCall>>

\* A read loop that hands the kept lines over newest first.
ParseLinesNewestFirst(file) ==
    LET kept == SelectSeq(file, LAMBDA line : Len(line) > 0)
    IN [k \in 1..Len(kept) |-> kept[Len(kept) + 1 - k]]

\* The lines kept by the read loop: those that are not blank.
ParseLines(file) == SelectSeq(file, LAMBDA line : Len(line) > 0)

\* FixBrokenDownloadFile, lines 303-316: read the snapshot line by line.
\* What ReadLine meets: the end of the file after all its lines, or an error
\* other than io.EOF that the disk keeps returning.
ReadEnv == {"eof", "read_err"}

\* The read loop leaves only on io.EOF.  After cut lines a lasting read error
\* makes every further ReadLine return the error, which the loop does not
\* test: it stays in the loop with the lines read so far.
Parse ==
    /\ pc = "parse"
    /\ fault = "none"
    /\ \E env \in ReadEnv, cut \in 0..Len(tmp) :
         LET got == IF env = "eof" THEN ParseLines(tmp)
                    ELSE ParseLines(SubSeq(tmp, 1, cut))
         IN /\ env = "eof" => cut = Len(tmp)
            /\ resultLine' = got
            /\ hist' = [k \in 1..Len(got) |-> NoHist]
            /\ fault' = IF env = "eof" THEN "none" ELSE env
            /\ pc' = IF env # "eof" THEN "parse"
                     ELSE IF Len(got) = 0 THEN "commit" ELSE "replay"
    /\ resultContainer' = <<>>
    /\ lastSuccessIndex' = -1
    /\ index' = 0
    /\ i' = 0
    /\ sent' = <<>>
    /\ UNCHANGED <<ledger, tmp, fs, maxRetry, tasks, lastCall, startLedger, runs>>

\* Bookkeeping that leaves both loops when an entry's retries end early.
NextPosLeavesLoop(idx, k, broke, n, budget) ==
    IF broke
    THEN [index |-> idx + 1, i |-> 0, pc |-> "commit"]
    ELSE IF k + 1 >= budget
    THEN [index |-> idx + 1, i |-> 0, pc |-> IF idx + 1 >= n THEN "commit" ELSE "replay"]
    ELSE [index |-> idx, i |-> k + 1, pc |-> "replay"]

\* Loop bookkeeping: the next (index, i) after an iteration that broke out of
\* the inner loop or not.
NextPos(idx, k, broke, n, budget) ==
    IF broke \/ k + 1 >= budget
    THEN [index |-> idx + 1, i |-> 0, pc |-> IF idx + 1 >= n THEN "commit" ELSE "replay"]
    ELSE [index |-> idx, i |-> k + 1, pc |-> "replay"]

\* The test that ends an entry's retries after a call, line 326.
Resolved(container) == Len(container) <= 0

\* FixBrokenDownloadFile, lines 317-335: one iteration of the inner loop.
Attempt ==
    /\ pc = "replay"
    /\ LET brokenLine == resultLine[index + 1]
           fileInfos == Split(brokenLine)
       IN IF index = lastSuccessIndex
          THEN LET nx == NextPos(index, i, TRUE, Len(resultLine), maxRetry)
               IN /\ index' = nx.index /\ i' = nx.i /\ pc' = nx.pc
                  /\ sent' = <<>>
                  /\ UNCHANGED <<fs, resultContainer, lastSuccessIndex, hist, lastCall>>
          ELSE IF Len(fileInfos) < 3
          THEN /\ pc' = "crashed"        \* fileInfos[2]: index out of range
               /\ sent' = <<>>
               /\ UNCHANGED <<fs, resultContainer, lastSuccessIndex, index, i, hist, lastCall>>
          ELSE \E mk \in MkdirEnv, env \in DownloadEnv :
                 LET r == NewFixFileDownloader(fileInfos[3], fileInfos[2],
                                               resultContainer, fs, <<>>, mk, env)
                     broke == Resolved(r.lines)
                     nx == NextPos(index, i, broke, Len(resultLine), maxRetry)
                 IN /\ FixEnvUsed(fs, fileInfos[2], mk, env)
                    /\ resultContainer' = r.lines
                    /\ fs' = r.fs
                    /\ lastSuccessIndex' = IF broke THEN index ELSE lastSuccessIndex
                    /\ sent' = IF broke THEN r.sent ELSE Send(r.sent, "retry")
                    /\ hist' = [hist EXCEPT ![index + 1] =
                                    [calls |-> @.calls + 1,
                                     fails |-> @.fails + (IF r.kind \in {"fail", "blocked"}
                                                          THEN 1 ELSE 0),
                                     oks |-> @.oks + (IF r.kind = "ok" THEN 1 ELSE 0),
                                     last |-> r.kind,
                                     marked |-> @.marked /\ r.kind = "blocked"]]
                    /\ lastCall' = IF r.kind \in {"mkdirfail", "exists"} THEN lastCall
                                   ELSE [path |-> fileInfos[2],
                                         failed |-> r.kind = "fail"]
                    /\ index' = nx.index /\ i' = nx.i /\ pc' = nx.pc
    /\ UNCHANGED <<ledger, tmp, maxRetry, resultLine, tasks, startLedger, fault, runs>>

\* What the disk does at commit.
CommitEnv == {"ok", "remove_err", "truncate_err"}

\* Truncate that leaves the file as it is.
TruncateKeeps(file) == file

\* FailedDownloadFile.Truncate(0).
Truncate(file) == <<>>

\* Commit that empties the ledger before it deletes the snapshot.
CommitTruncatesFirst(env, file, snap) ==
    CASE env = "remove_err" -> [pc |-> "aborted_remove", ledger |-> Truncate(file), tmp |-> snap]
      [] env = "truncate_err" -> [pc |-> "aborted_truncate", ledger |-> file, tmp |-> snap]
      [] OTHER -> [pc |-> "done", ledger |-> Truncate(file), tmp |-> NoTmp]

\* Commit that deletes the snapshot and reports completion without emptying
\* the ledger.
CommitKeepsLedger(env, file, snap) ==
    CASE env = "remove_err" -> [pc |-> "aborted_remove", ledger |-> file, tmp |-> snap]
      [] env = "truncate_err" -> [pc |-> "aborted_truncate", ledger |-> file, tmp |-> NoTmp]
      [] OTHER -> [pc |-> "done", ledger |-> file, tmp |-> NoTmp]

\* FixBrokenDownloadFile, lines 336-349, as a function of what the disk does:
\* os.Remove of the snapshot, then Truncate(0) of the ledger.  [pc, ledger, tmp].
CommitStep(env, file, snap) ==
    CASE env = "remove_err" -> [pc |-> "aborted_remove", ledger |-> file, tmp |-> snap]
      [] env = "truncate_err" -> [pc |-> "aborted_truncate", ledger |-> file, tmp |-> NoTmp]
      [] OTHER -> [pc |-> "done", ledger |-> Truncate(file), tmp |-> NoTmp]

\* FixBrokenDownloadFile, lines 336-349: delete the snapshot, empty the ledger.
Commit ==
    /\ pc = "commit"
    /\ \E env \in CommitEnv :
         LET r == CommitStep(env, ledger, tmp)
         IN /\ pc' = r.pc
            /\ ledger' = r.ledger
            /\ tmp' = r.tmp
            /\ fault' = IF env = "ok" THEN "none" ELSE env
    /\ sent' = <<>>
    /\ UNCHANGED <<fs, maxRetry, resultLine, resultContainer, lastSuccessIndex, index, i,
                   tasks, hist, lastCall, startLedger, runs>>

Next ==
    \/ \E f \in Files : DownloadTask(f)
    \/ Snapshot
    \/ Parse
    \/ Attempt
    \/ Commit

Spec == Init /\ [][Next]_vars

\* ------------------------------------------- tasks concurrent with the pass
\* The worker pool runs task closures on several goroutines, and nothing in
\* the package keeps them apart from each other or from a reconciliation pass:
\* a task may take a step whenever the process is alive.
PoolRuns == pc # "crashed"

\* The tasks that have buffered their ledger line and not yet flushed it.
Appending == {f \in Files : tasks[f].st = "appending"}

\* The destination files after a task's fetches, before it cleans up.
TaskFetched(files, storePath, g, left, env) ==
    LET files1 == [files EXCEPT ![storePath] = left]
    IN IF g = "content_length_err" THEN DownloadFile(files1, storePath, env).fs ELSE files1

\* First part of the closure: the fetches and, when they failed, the
\* notification, the record string and its WriteString into the task's own
\* bufio.Writer on the shared handle.  No lock is taken.
TaskBegin(f) ==
    /\ PoolRuns
    /\ tasks[f].st = "new"
    /\ Len(ledger) + Cardinality(Appending) < MaxLedger
    /\ \E g \in GotEnv, left \in GotLeft, env \in DownloadEnv :
         LET r == NewFileDownloader(UrlOf(f), PathOf(f), ledger, fs, <<>>, g, left, env)
         IN /\ TaskEnvUsed(g, left, env)
            /\ sent' = r.sent
            /\ IF r.failed
               THEN /\ fs' = TaskFetched(fs, PathOf(f), g, left, env)
                    /\ tasks' = [tasks EXCEPT ![f] =
                                    [st |-> "appending", appended |-> 0,
                                     notified |-> Count(r.sent, "taskfail"), ret |-> "none"]]
                    /\ UNCHANGED lastCall
               ELSE /\ fs' = r.fs
                    /\ tasks' = [tasks EXCEPT ![f] =
                                    [st |-> TaskFate(g, env), appended |-> 0,
                                     notified |-> Count(r.sent, "taskfail"), ret |-> r.ret]]
                    /\ lastCall' = [path |-> PathOf(f), failed |-> FALSE]
    /\ UNCHANGED <<ledger, tmp, maxRetry, pc, resultLine, resultContainer, lastSuccessIndex,
                   index, i, hist, startLedger, fault, runs>>

\* Second part: Flush writes the record to the O_APPEND handle, then the
\* fragment is removed and the closure returns nil.
TaskFlush(f) ==
    /\ PoolRuns
    /\ tasks[f].st = "appending"
    /\ ledger' = Append(ledger, LogStr(GetCurrentDateTime, PathOf(f), UrlOf(f)))
    /\ fs' = RemoveFile(fs, PathOf(f))
    /\ tasks' = [tasks EXCEPT ![f] =
                    [st |-> "failed", appended |-> 1, notified |-> tasks[f].notified, ret |-> "nil"]]
    /\ lastCall' = [path |-> PathOf(f), failed |-> TRUE]
    /\ UNCHANGED <<tmp, maxRetry, pc, resultLine, resultContainer, lastSuccessIndex,
                   index, i, sent, hist, startLedger, fault, runs>>

NextConc ==
    \/ \E f \in Files : TaskBegin(f)
    \/ \E f \in Files : TaskFlush(f)
    \/ Snapshot
    \/ Parse
    \/ Attempt
    \/ Commit

SpecConc == Init /\ [][NextConc]_vars

\* The model's types.
TypeOK ==
    /\ pc \in {"idle", "parse", "replay", "commit", "done", "crashed",
                "aborted_snapshot", "aborted_remove", "aborted_truncate"}
    /\ maxRetry \in 1..MaxRetry
    /\ \A p \in Paths : fs[p] \in {NoFile, Data, Partial, Marker, MarkerInside}
    /\ index \in 0..Len(resultLine)
    /\ i \in 0..(maxRetry - 1)
    /\ Len(hist) = Len(resultLine)

\* ------------------------------------------------------------------ claims
\* The replay loop has been left normally.
ReplayOver == pc \in {"commit", "done", "aborted_remove", "aborted_truncate"}
Entries == 1..Len(resultLine)
\* The destination path and URL a ledger line names (second and third field).
LinePath(line) == Split(line)[2]
LineUrl(line) == Split(line)[3]
WellFormed(line) == Len(Split(line)) >= 3
\* The records of a list of lines that name the path.
RecordsFor(lines, path) ==
    SelectSeq(lines, LAMBDA l : WellFormed(l) /\ LinePath(l) = path)
\* The disk errors that can hit the snapshot step.
SnapshotFaults == SnapshotEnv \ {"ok"}
\* The ledger as the download tasks left it.
LedgerAfterTasks == IF pc = "idle" THEN ledger ELSE startLedger
\* The pass in progress or last run is the first one of the run.
FirstPass == runs = <<>>
\* The entry (1-based) of the replay loop's latest NewFixFileDownloader call,
\* 0 before the first call of the pass.
JustAttempted ==
    IF pc \in {"idle", "parse", "aborted_snapshot"} \/ Len(hist) = 0 THEN 0
    ELSE IF i > 0 THEN index + 1
    ELSE index
\* Every call of the pass recorded a failure / downloaded the file.
AllFailed == \A k \in Entries : hist[k].calls >= 1 /\ hist[k].fails = hist[k].calls
AllSucceeded == \A k \in Entries : hist[k].calls >= 1 /\ hist[k].oks = hist[k].calls

\* C1: after a pass that completes commit without a ledger I/O error, the live
\* ledger holds exactly the records of the failure accumulator.
C1_LedgerIsAccumulator ==
    pc = "done" => ledger = resultContainer

\* C2: when every re-download attempt of the pass fails, the ledger after the
\* pass holds one entry per original entry, same path and URL, none duplicated
\* and none lost.
C2_AllFailKeepsEveryEntry ==
    (pc = "done" /\ AllFailed) =>
        /\ Len(ledger) = Len(resultLine)
        /\ \A k \in Entries :
              /\ WellFormed(ledger[k])
              /\ LinePath(ledger[k]) = LinePath(resultLine[k])
              /\ LineUrl(ledger[k]) = LineUrl(resultLine[k])

\* C3: an entry that failed on some attempts and then downloaded on a later one
\* gets no further call and leaves no record in the failure list; with
\* maxRetry = 3, a failing twice then succeeding and b failing three times, the
\* ledger after the pass holds exactly one entry, for b.
C3_ResolvedLeavesNoRecord ==
    /\ ReplayOver =>
         \A k \in Entries :
            (/\ hist[k].fails >= 1
             /\ hist[k].oks >= 1
             /\ \A j \in Entries \ {k} : LinePath(resultLine[j]) # LinePath(resultLine[k]))
            => /\ hist[k].last = "ok"
               /\ hist[k].oks = 1
               /\ RecordsFor(resultContainer, LinePath(resultLine[k])) = <<>>
    /\ (/\ pc = "done"
        /\ maxRetry = 3
        /\ Len(resultLine) = 2
        /\ LinePath(resultLine[1]) = PathOf("a")
        /\ LinePath(resultLine[2]) = PathOf("b")
        /\ hist[1].calls = 3 /\ hist[1].fails = 2 /\ hist[1].oks = 1
        /\ hist[1].last = "ok"
        /\ hist[2].calls = 3 /\ hist[2].fails = 3)
       => /\ Len(ledger) = 1
          /\ WellFormed(ledger[1])
          /\ LinePath(ledger[1]) = PathOf("b")

\* C4: when the parsed ledger is not empty and every re-download of the pass
\* succeeds, the ledger is empty once the pass is done, for every maxRetry.
C4_AllSucceedEmptiesLedger ==
    (pc = "done" /\ Len(resultLine) > 0 /\ AllSucceeded) => ledger = <<>>

C4_Witness ==
    /\ pc = "done"
    /\ Len(startLedger) = MaxLedger
    /\ Len(resultLine) = MaxLedger
    /\ AllSucceeded
    /\ ledger = <<>>

\* C5: a ledger line with fewer than three fields never crashes the pass.
C5_MalformedLineNeverCrashes ==
    pc # "crashed"

\* C6: after a failed download call, of a task or of the reconciler, no file
\* exists at the call's destination path.
C6_NoFragmentAfterFailure ==
    lastCall.failed => fs[lastCall.path] = NoFile

\* C7: when the copy to the snapshot path fails or the snapshot cannot be
\* opened, the pass aborts before it parses or replays anything and the live
\* ledger is what it was.
C7_SnapshotFailureAborts ==
    /\ fault \in SnapshotFaults =>
         /\ pc = "aborted_snapshot"
         /\ ledger = startLedger
         /\ resultLine = <<>>
         /\ hist = <<>>
         /\ resultContainer = <<>>
    /\ pc = "aborted_snapshot" => fault \in SnapshotFaults

C7_Witness ==
    /\ pc = "aborted_snapshot"
    /\ fault = "late_err"
    /\ Len(ledger) = MaxLedger
    /\ \A k \in 1..Len(ledger) : WellFormed(ledger[k])

\* C8: when deleting the snapshot fails at commit, the pass aborts and the live
\* ledger still holds every line it held when the pass started.
C8_RemoveFailureKeepsLedger ==
    /\ fault = "remove_err" =>
         /\ pc = "aborted_remove"
         /\ ledger = startLedger
         /\ tmp # NoTmp
    /\ pc = "aborted_remove" => fault = "remove_err"

C8_Witness ==
    /\ pc = "aborted_remove"
    /\ Len(ledger) = MaxLedger
    /\ Len(resultContainer) >= 1
    /\ \E k \in Entries : hist[k].oks >= 1

\* C9: a download task appends one ledger record and sends one failure
\* notification exactly when its download finally fails; when the fallback GET
\* succeeds after a Content-Length error it appends and sends nothing.
C9_TaskRecordsIffFailed ==
    \A f \in Files :
        /\ tasks[f].st = "failed" => tasks[f].appended = 1 /\ tasks[f].notified = 1
        /\ tasks[f].st \in {"ok", "fallback_ok", "new"} =>
              tasks[f].appended = 0 /\ tasks[f].notified = 0
        /\ (tasks[f].st = "failed" /\ FirstPass) =>
              \E k \in 1..Len(LedgerAfterTasks) :
                  LedgerAfterTasks[k] = LogStr(GetCurrentDateTime, PathOf(f), UrlOf(f))

C9_Witness ==
    /\ tasks["a"].st = "fallback_ok"
    /\ tasks["b"].st = "failed"
    /\ pc = "idle"
    /\ ledger[Len(ledger)] = LogStr(GetCurrentDateTime, PathOf("b"), UrlOf("b"))

C11_SecondRunIsNoOp ==
    /\ (FirstPass /\ pc = "done" /\ Len(resultLine) > 0 /\ AllSucceeded) => ledger = <<>>
    /\ (~FirstPass /\ runs[Len(runs)] = "all_ok") =>
          /\ startLedger = <<>>
          /\ ledger = <<>>
          /\ resultLine = <<>>
          /\ hist = <<>>
          /\ resultContainer = <<>>
          /\ pc \notin {"replay", "crashed"}

C11_Witness ==
    /\ runs = <<"all_ok">>
    /\ pc = "done"
    /\ ledger = <<>>
    /\ \A p \in Paths : fs[p] = Data

\* C12: the content check reports a provider block exactly when the whole
\* content of the destination file is the marker string; content that only
\* contains the marker, like any other content, counts as downloaded.
C12_BlockedIffExactMarker ==
    LET k == JustAttempted
    IN k >= 1 =>
         LET content == fs[LinePath(resultLine[k])]
             last == hist[k].last
         IN /\ last = "blocked" <=> content = Marker
            /\ last = "blocked" => Len(resultContainer) >= 1
            /\ content \in {Data, MarkerInside} => last \in {"ok", "exists"}
            /\ last = "ok" => content \in {Data, MarkerInside}

C12_Witness ==
    /\ JustAttempted >= 1
    /\ hist[JustAttempted].last = "ok"
    /\ fs[LinePath(resultLine[JustAttempted])] = MarkerInside
    /\ \E k \in Entries : hist[k].last = "blocked" /\ fs[LinePath(resultLine[k])] = Marker

\* C13: an entry whose destination file already exists with content other than
\* the marker gets exactly one NewFixFileDownloader call in the pass, whatever
\* the accumulator holds from earlier entries.
C13_ExistingFileOneCall ==
    ReplayOver =>
        \A k \in Entries :
            (hist[k].last = "exists" /\ hist[k].fails = 0 /\ hist[k].oks = 0)
                => hist[k].calls = 1

\* C14: an entry whose every re-download returns the marker body leaves at
\* most one record in the accumulator of the pass, for every maxRetry.
C14_MarkerEntryOneRecord ==
    ReplayOver =>
        \A k \in Entries :
            (/\ hist[k].calls >= 1
             /\ hist[k].marked
             /\ \A j \in Entries \ {k} : LinePath(resultLine[j]) # LinePath(resultLine[k]))
            => Len(RecordsFor(resultContainer, LinePath(resultLine[k]))) <= 1

\* C15: the replay loop sends the "retrying" notification after a call only
\* when that call recorded a failure and was not the entry's last attempt.
C15_RetryNoticeOnlyBeforeRetry ==
    LET k == JustAttempted
    IN (k >= 1 /\ Count(sent, "retry") > 0) =>
          /\ hist[k].last \in {"fail", "blocked"}
          /\ hist[k].calls < maxRetry

\* The lines of a file in file order with the blank ones left out.
RECURSIVE InFileOrder(_)
InFileOrder(file) ==
    IF file = <<>> THEN <<>>
    ELSE IF Head(file) = <<>> THEN InFileOrder(Tail(file))
    ELSE <<Head(file)>> \o InFileOrder(Tail(file))

\* C18: replay takes the parsed entries in ledger-file order and one call at a
\* time: while entry j is being attempted every earlier entry has had all its
\* calls and no later entry has had any, and call number i + 1 of an entry is
\* made only after its i earlier calls.
C18_ReplayInFileOrder ==
    /\ pc \in {"replay", "commit", "done", "crashed", "aborted_remove", "aborted_truncate"}
          => resultLine = InFileOrder(startLedger)
    /\ pc = "replay" =>
          \A k \in Entries :
              /\ k < index + 1 => hist[k].calls \in 1..maxRetry
              /\ k = index + 1 => hist[k].calls = i
              /\ k > index + 1 => hist[k].calls = 0
    /\ ReplayOver => \A k \in Entries : hist[k].calls \in 1..maxRetry

C18_Witness ==
    /\ pc = "replay"
    /\ Len(resultLine) = 2
    /\ LinePath(resultLine[1]) = PathOf("b")
    /\ LinePath(resultLine[2]) = PathOf("a")
    /\ index = 1
    /\ i = 1
    /\ hist[1].calls = maxRetry
    /\ hist[2].calls = 1

\* The pass has returned to its caller.
PassEnded == pc \in {"idle", "done", "aborted_snapshot", "aborted_remove", "aborted_truncate"}

\* C19: a pass over a finite ledger always terminates, by completing commit or
\* by aborting on a ledger I/O error (a read error while parsing included), and
\* calls the executor at most maxRetry times for an entry: a pass that has not
\* ended has a next step, and a read error leaves the pass aborted.  (The panic
\* on a line with fewer than three fields is the subject of C5 and set apart.)
C19_PassTerminates ==
    /\ PassEnded \/ pc = "crashed" \/ ENABLED Next
    /\ fault = "read_err" => pc \in {"aborted_snapshot", "aborted_remove", "aborted_truncate"}
    /\ \A k \in 1..Len(hist) : hist[k].calls <= maxRetry

\* C20: during replay the failure accumulator only grows: no step of the replay
\* removes a record accumulated for an earlier entry or attempt, the step that
\* hits the directory-creation failure of NewFixFileDownloader included.
C20_AccumulatorOnlyGrows ==
    [][pc = "replay" =>
          /\ Len(resultContainer') >= Len(resultContainer)
          /\ SubSeq(resultContainer', 1, Len(resultContainer)) = resultContainer]_vars

\* C16: a record that a concurrent download task appended to the live ledger
\* after the pass took its snapshot and before its commit is still in the
\* ledger when the pass has finished.
C16_InFlightAppendsKept ==
    [][(pc = "commit" /\ pc' = "done") =>
          \A k \in (Len(startLedger) + 1)..Len(ledger) :
              \E j \in 1..Len(ledger') : ledger'[j] = ledger[k]]_vars

\* C17: ledger appends of concurrently failing tasks are serialized: at most
\* one task is inside the append at any time, and once the tasks are through
\* the ledger holds one intact line for each task that failed.
C17_AppendsSerialized ==
    /\ Cardinality(Appending) <= 1
    /\ (pc = "idle" /\ Appending = {}) =>
          \A f \in Files :
              tasks[f].st = "failed" =>
                  Len(RecordsFor(SubSeq(ledger, Len(ledger) - Cardinality({h \in Files : tasks[h].st = "failed"}) + 1, Len(ledger)), PathOf(f))) = 1

=============================================================================
